---- MODULE Spec2Model ----
(***************************************************************************)
(* EduMate: the multi-step agentic comic generator.                        *)
(*                                                                         *)
(*   agents.py                MultiStepAgentOrchestrator.execute_workflow  *)
(*                            and the four agents' execute/log_execution   *)
(*   database.py              the comic_generations and agent_logs tables  *)
(*   GenerateComicAgentic.py  the rendering driver start(), its scene      *)
(*                            tasks and add_line_breaks                    *)
(*   imagen_client.py         GoogleImagenClient.generate_image            *)
(*   gemini_client.py         GeminiFlashClient.generate_text              *)
(*                                                                         *)
(* Spec       : one start() call on a GenerateComicAgentic instance        *)
(* SpecReuse  : successive start() calls on the same instance              *)
(* SpecText   : add_line_breaks applied to a dialogue text                 *)
(* SpecParse  : _parse_educational_content applied to a script text        *)
(* SpecRender : one rendering and the calls it makes                       *)
(* SpecPool   : the scene tasks of start() on the worker pool              *)
(* SpecQA     : QualityAssuranceAgent.execute on one analysis              *)
(* SpecRetry  : generate_text and its retries                              *)
(* SpecUpdate : update_comic_generation_status on the row of one run       *)
(* SpecChars  : extract_character_info on one backend answer               *)
(***************************************************************************)
EXTENDS Integers, Sequences, FiniteSets, TLC

\* ------------------------------------------------------------------------
\* Bounds of the model
\* ------------------------------------------------------------------------
\* start() calls made on the one driver instance in SpecReuse
MaxCalls == 2
\* SCENE markers of a generated script
MaxScenes == 2
\* speaker lines under one SCENE marker
MaxDialogues == 2
\* words of a dialogue text given to add_line_breaks
MaxWords == 15

\* ------------------------------------------------------------------------
\* Program constants
\* ------------------------------------------------------------------------
\* add_line_breaks: a break after every 7th word
WordsPerLine == 7
\* ThreadPoolExecutor(max_workers=3)
max_workers == 3

VARIABLES
    \* --- environment, fixed at construction
    updated_at_column,      \* comic_generations has the updated_at column the UPDATE sets
    imagen_client,          \* self.imagen_client: TRUE a client, FALSE None
    \* --- datastore
    comic_generations,      \* rows of comic_generations, id = index
    agent_logs,             \* rows of agent_logs, in insertion order
    \* --- execute_workflow of the current start() call
    pc,                     \* position of the main thread
    runs,                   \* start() calls begun so far
    generation_id,          \* id returned by log_comic_generation, 0 before
    workflow_results,       \* the mapping execute_workflow builds
    invocations,            \* agent execute() calls of this run, in order
    exc,                    \* message of the exception the workflow's handler caught
    wfOutcome,              \* "none", "returned" (a mapping) or "raised"
    \* --- rendering driver
    generated_images_paths, \* self.generated_images_paths, a dict in insertion order
    scenes,                 \* scenes start() read from the workflow result
    prompts,                \* visual_prompts start() read from the workflow result
    futures,                \* submitted scene tasks, in submission order
    backendCalls,           \* answers of the image backend in this run: "ok", "failed"
    pdf,                    \* pages convert_images_to_pdf wrote in this run, <<>> if none
    images,                 \* the list handed to document assembly in this run
    startResult,            \* what the last start() call returned
    \* --- add_line_breaks
    text,                   \* its argument
    new_text,               \* its result, <<>> before the call
    \* --- _parse_educational_content
    content,                \* the script text given to the parser
    parses,                 \* the Scene lists its calls returned, in call order
    \* --- one rendering (poster or scene panel)
    render,                 \* what is rendered and what the environment does to it
    attempts,               \* the calls the rendering made, in order, <<>> before
    \* --- QualityAssuranceAgent.execute on one analysis
    quality_analysis,       \* the lines of the whole-script analysis
    dialogue_analyses,      \* the analyses of the dialogue lines, one text each
    qa,                     \* <<the result data of the call>>, <<>> before
    \* --- GeminiClient.generate_text
    max_retries,            \* its argument
    attempt,                \* the loop variable
    responses,              \* what the backend answered, call by call
    sleeps,                 \* the delays slept so far, in seconds
    generated,              \* "calling", "sleeping", "returned", "raised"; "none" unobserved
    \* --- update_comic_generation_status on one row
    record,                 \* the row, <<>> when none is observed
    update_calls,           \* the calls made on it, in order
    \* --- GeminiFlashClient.extract_character_info
    response,               \* response.split('\n') of the backend's answer
    extracted               \* <<what the call returned or that it raised>>, <<>> before

wfVars == <<pc, runs, generation_id, workflow_results, invocations, exc, wfOutcome>>
dbVars == <<comic_generations, agent_logs>>
envVars == <<updated_at_column, imagen_client>>
drvVars == <<generated_images_paths, scenes, prompts, futures, backendCalls, pdf, images, startResult>>
textVars == <<text, new_text>>
parseVars == <<content, parses>>
renderVars == <<render, attempts>>
qaVars == <<quality_analysis, dialogue_analyses, qa>>
retryVars == <<max_retries, attempt, responses, sleeps, generated>>
updVars == <<record, update_calls>>
charVars == <<response, extracted>>
vars == <<envVars, dbVars, wfVars, drvVars, textVars, parseVars, renderVars, qaVars, retryVars, updVars, charVars>>

\* ------------------------------------------------------------------------
\* Mappings (Python dicts with string keys)
\* ------------------------------------------------------------------------
Put(m, k, v) == [x \in (DOMAIN m) \cup {k} |-> IF x = k THEN v ELSE m[x]]

Has(m, k) == k \in DOMAIN m

EmptyMap == [x \in {} |-> TRUE]

\* ------------------------------------------------------------------------
\* Datastore (database.py)
\* ------------------------------------------------------------------------
\* an INSERT that leaves the status to the column default
LogComicGeneration_Pending(rows) ==
    Append(rows, [status |-> "pending", output_path |-> FALSE, completed_at |-> FALSE])

\* INSERT INTO comic_generations (...) VALUES (..., 'processing')
LogComicGeneration(rows) ==
    Append(rows, [status |-> "processing", output_path |-> FALSE, completed_at |-> FALSE])

\* UPDATE comic_generations SET status = :status, updated_at = CURRENT_TIMESTAMP ...
\* The statement names the column updated_at: it executes only on a table
\* that has that column.
UpdateStatementValid(hasColumn) == hasColumn

UpdateComicGenerationStatus(rows, id, status, path) ==
    [rows EXCEPT ![id] = [status |-> status,
                          output_path |-> (@.output_path \/ path),
                          completed_at |-> (@.completed_at \/ status = "completed")]]

\* an insert that leaves status to the column's default 'success'
LogAgentExecution_DefaultStatus(rows, gid, name, step, status) ==
    Append(rows, [generation_id |-> gid, agent_name |-> name,
                  step_number |-> step, status |-> "success"])

\* INSERT INTO agent_logs (...)
LogAgentExecution(rows, gid, name, step, status) ==
    Append(rows, [generation_id |-> gid, agent_name |-> name,
                  step_number |-> step, status |-> status])

\* ------------------------------------------------------------------------
\* Scripts and scene parsing (agents.py)
\* ------------------------------------------------------------------------
\* A script is a sequence of lines; a line is known by what the parser
\* looks at: "SCENE" starts with SCENE, "CHARACTERS:" and
\* "EDUCATIONAL_SUMMARY:" are the two headers, "speaker" holds a ':' and is
\* none of the former, "plain" holds no ':'.
RECURSIVE SceneLines(_)
SceneLines(n) == IF n = 0 THEN <<>> ELSE Append(SceneLines(n - 1), "speaker")

RECURSIVE ScriptBody(_)
ScriptBody(ds) ==
    IF ds = <<>> THEN <<>>
    ELSE <<"SCENE">> \o SceneLines(Head(ds)) \o ScriptBody(Tail(ds))

\* the format generate_educational_content asks the backend for
MkScript(ds) ==
    <<"CHARACTERS:", "plain">> \o ScriptBody(ds) \o <<"EDUCATIONAL_SUMMARY:", "plain">>

\* a scene has no dialogue line, one, or MaxDialogues of them
DialogueCounts ==
    UNION {[1..n -> {0, 1, MaxDialogues}] : n \in 0..MaxScenes}

Scripts == {MkScript(ds) : ds \in DialogueCounts}

\* a parser that takes the header lines for dialogue lines
RECURSIVE ParseFrom_KeepHeaders(_, _, _, _)
ParseFrom_KeepHeaders(lines, i, parsed, cur) ==
    IF i > Len(lines)
    THEN IF cur # <<>> THEN Append(parsed, cur[1]) ELSE parsed
    ELSE LET line == lines[i] IN
         IF line = "SCENE"
         THEN LET done == IF cur # <<>> THEN Append(parsed, cur[1]) ELSE parsed
              IN ParseFrom_KeepHeaders(lines, i + 1, done,
                           <<[scene_number |-> Len(done) + 1, dialogues |-> <<>>]>>)
         ELSE IF line # "plain" /\ cur # <<>>
         THEN ParseFrom_KeepHeaders(lines, i + 1, parsed,
                        <<[cur[1] EXCEPT !.dialogues = Append(@, i)]>>)
         ELSE ParseFrom_KeepHeaders(lines, i + 1, parsed, cur)

\* a parser that numbers the scenes from 0
RECURSIVE ParseFrom_NumberFromZero(_, _, _, _)
ParseFrom_NumberFromZero(lines, i, parsed, cur) ==
    IF i > Len(lines)
    THEN IF cur # <<>> THEN Append(parsed, cur[1]) ELSE parsed
    ELSE LET line == lines[i] IN
         IF line = "SCENE"
         THEN LET done == IF cur # <<>> THEN Append(parsed, cur[1]) ELSE parsed
              IN ParseFrom_NumberFromZero(lines, i + 1, done,
                           <<[scene_number |-> Len(done), dialogues |-> <<>>]>>)
         ELSE IF line # "plain" /\ cur # <<>>
                 /\ line # "CHARACTERS:" /\ line # "EDUCATIONAL_SUMMARY:"
         THEN ParseFrom_NumberFromZero(lines, i + 1, parsed,
                        <<[cur[1] EXCEPT !.dialogues = Append(@, i)]>>)
         ELSE ParseFrom_NumberFromZero(lines, i + 1, parsed, cur)

\* a parser that numbers a scene by the scenes closed before the open one
RECURSIVE ParseFrom_NumberClosed(_, _, _, _)
ParseFrom_NumberClosed(lines, i, parsed, cur) ==
    IF i > Len(lines)
    THEN IF cur # <<>> THEN Append(parsed, cur[1]) ELSE parsed
    ELSE LET line == lines[i] IN
         IF line = "SCENE"
         THEN LET done == IF cur # <<>> THEN Append(parsed, cur[1]) ELSE parsed
              IN ParseFrom_NumberClosed(lines, i + 1, done,
                           <<[scene_number |-> Len(parsed) + 1, dialogues |-> <<>>]>>)
         ELSE IF line # "plain" /\ cur # <<>>
                 /\ line # "CHARACTERS:" /\ line # "EDUCATIONAL_SUMMARY:"
         THEN ParseFrom_NumberClosed(lines, i + 1, parsed,
                        <<[cur[1] EXCEPT !.dialogues = Append(@, i)]>>)
         ELSE ParseFrom_NumberClosed(lines, i + 1, parsed, cur)

\* _parse_educational_content: cur is <<>> for None, <<scene>> otherwise
RECURSIVE ParseFrom(_, _, _, _)
ParseFrom(lines, i, parsed, cur) ==
    IF i > Len(lines)
    THEN IF cur # <<>> THEN Append(parsed, cur[1]) ELSE parsed
    ELSE LET line == lines[i] IN
         IF line = "SCENE"
         THEN LET done == IF cur # <<>> THEN Append(parsed, cur[1]) ELSE parsed
              IN ParseFrom(lines, i + 1, done,
                           <<[scene_number |-> Len(done) + 1, dialogues |-> <<>>]>>)
         ELSE IF line # "plain" /\ cur # <<>>
                 /\ line # "CHARACTERS:" /\ line # "EDUCATIONAL_SUMMARY:"
         THEN ParseFrom(lines, i + 1, parsed,
                        <<[cur[1] EXCEPT !.dialogues = Append(@, i)]>>)
         ELSE ParseFrom(lines, i + 1, parsed, cur)

\* a parser that starts from the scene left open by the previous call
ParseEducationalContent_KeepCurrent(lines) ==
    ParseFrom(lines, 1, <<>>,
              IF parses = <<>> \/ parses[Len(parses)] = <<>> THEN <<>>
              ELSE <<parses[Len(parses)][Len(parses[Len(parses)])]>>)

ParseEducationalContent(lines) == ParseFrom(lines, 1, <<>>, <<>>)

\* ------------------------------------------------------------------------
\* Agents (agents.py)
\* ------------------------------------------------------------------------
AgentName(k) ==
    CASE k = 1 -> "ContentIntelligenceAgent"
      [] k = 2 -> "EducationalPlanningAgent"
      [] k = 3 -> "VisualGenerationAgent"
      [] k = 4 -> "QualityAssuranceAgent"

ResultKey(k) ==
    CASE k = 1 -> "content_intelligence"
      [] k = 2 -> "educational_planning"
      [] k = 3 -> "visual_generation"
      [] k = 4 -> "quality_assurance"

\* AgentResult, as built in the try (success) or the except (failure) branch
Success(data, k) ==
    [success |-> TRUE, data |-> <<data>>, error_message |-> "", step_number |-> k]

\* error_message=str(e): the exception is known by the call that raised it
Failure(k, msg) ==
    [success |-> FALSE, data |-> <<>>, error_message |-> msg, step_number |-> k]

\* ContentIntelligenceAgent.execute up to log_execution. fault: "none", or
\* where the try block raised: "backend" (a search, the script generation,
\* the character extraction) or "store" (store_educational_content, the
\* last call of the try block).
ContentResult(script, fault) ==
    IF fault = "none"
    THEN Success([educational_content |-> script,
                  scenes |-> ParseEducationalContent(script)], 1)
    ELSE Failure(1, fault)

\* numbers of bullet lines _generate_learning_objectives may keep
ObjectiveCounts == {0, 3}

\* EducationalPlanningAgent.execute: the kept bullet lines are counted; the
\* alignment score 8.5 is held in tenths
PlanningResult(objectives, fault) ==
    IF fault = "none"
    THEN Success([objectives_count |-> objectives, alignment_score |-> 85], 2)
    ELSE Failure(2, fault)

\* one prompt per scene (its first dialogue line) instead of one per line
DialoguePrompts_FirstOnly(n, ds) ==
    IF ds = <<>> THEN <<>>
    ELSE <<[type |-> "scene", scene_number |-> n, prompt |-> Head(ds)]>>

\* VisualGenerationAgent.execute: one poster prompt, then one scene prompt
\* per dialogue line of every scene. A prompt text is known by the dialogue
\* line it was written for (0 for the poster).
RECURSIVE DialoguePrompts(_, _)
DialoguePrompts(n, ds) ==
    IF ds = <<>> THEN <<>>
    ELSE <<[type |-> "scene", scene_number |-> n, prompt |-> Head(ds)]>>
         \o DialoguePrompts(n, Tail(ds))

RECURSIVE ScenePrompts(_)
ScenePrompts(ss) ==
    IF ss = <<>> THEN <<>>
    ELSE DialoguePrompts(Head(ss).scene_number, Head(ss).dialogues)
         \o ScenePrompts(Tail(ss))

VisualPrompts(ss) ==
    <<[type |-> "poster", scene_number |-> 0, prompt |-> 0]>> \o ScenePrompts(ss)

VisualResult(input, fault) ==
    IF fault = "none"
    THEN LET vp == VisualPrompts(input.scenes)
         IN Success([visual_prompts |-> vp, total_prompts |-> Len(vp)], 3)
    ELSE Failure(3, fault)

\* QualityAssuranceAgent.execute: improvements are extracted only when the
\* analysis does not approve
QAResult(input, approved, improvements, fault) ==
    IF fault = "none"
    THEN Success([approval_status |-> approved,
                  improvements_needed |-> IF approved THEN <<>> ELSE improvements,
                  total_scenes_validated |-> Len(input.scenes)], 4)
    ELSE Failure(4, fault)

\* log_execution that writes a row only for a failed result
LogExecution_ErrorsOnly(rows, gid, k, result) ==
    IF result.success THEN rows
    ELSE LogAgentExecution(rows, gid, AgentName(k), k, "error")

\* BaseAgent.log_execution: one agent_logs row per call, 'success' or 'error'
LogExecution(rows, gid, k, result) ==
    LogAgentExecution(rows, gid, AgentName(k), k,
                      IF result.success THEN "success" ELSE "error")

\* ------------------------------------------------------------------------
\* Initial state
\* ------------------------------------------------------------------------
NoResult == [kind |-> "none", error |-> ""]

IdleRun ==
    /\ pc = "idle"
    /\ runs = 0
    /\ generation_id = 0
    /\ workflow_results = EmptyMap
    /\ invocations = <<>>
    /\ exc = ""
    /\ wfOutcome = "none"
    /\ comic_generations = <<>>
    /\ agent_logs = <<>>
    /\ generated_images_paths = <<>>
    /\ scenes = <<>>
    /\ prompts = <<>>
    /\ futures = <<>>
    /\ backendCalls = {}
    /\ pdf = <<>>
    /\ images = <<>>
    /\ startResult = NoResult

\* no parser call and no single rendering under observation
NoParse ==
    /\ content = <<>>
    /\ parses = <<>>

NoRender ==
    /\ render = [target |-> "none"]
    /\ attempts = <<>>

\* no quality analysis and no generate_text call under observation
NoQA ==
    /\ quality_analysis = <<>>
    /\ dialogue_analyses = <<>>
    /\ qa = <<>>

NoRetry ==
    /\ max_retries = 0
    /\ attempt = 0
    /\ responses = <<>>
    /\ sleeps = <<>>
    /\ generated = "none"

\* no single row and no character extraction under observation
NoUpdate ==
    /\ record = <<>>
    /\ update_calls = <<>>

NoExtract ==
    /\ response = <<>>
    /\ extracted = <<>>

\* GenerateComicAgentic.__init__ on a database whose tables exist already
\* (CREATE TABLE IF NOT EXISTS keeps them as they are) or are created by
\* _initialize_tables, which declares no updated_at column
Init ==
    /\ updated_at_column \in BOOLEAN
    /\ imagen_client \in BOOLEAN
    /\ IdleRun
    /\ text = <<>>
    /\ new_text = <<>>
    /\ NoParse
    /\ NoRender
    /\ NoQA
    /\ NoRetry
    /\ NoUpdate
    /\ NoExtract

\* ------------------------------------------------------------------------
\* execute_workflow (agents.py), called from start()
\* ------------------------------------------------------------------------
\* start() up to the first agent: log_comic_generation runs before the try
Start ==
    /\ pc = "idle"
    /\ runs' = runs + 1
    /\ invocations' = <<>>
    /\ exc' = ""
    /\ scenes' = <<>>
    /\ prompts' = <<>>
    /\ futures' = <<>>
    /\ backendCalls' = {}
    /\ pdf' = <<>>
    /\ images' = <<>>
    /\ startResult' = NoResult
    /\ \E dbOk \in BOOLEAN :
         IF dbOk
         THEN /\ comic_generations' = LogComicGeneration(comic_generations)
              /\ generation_id' = Len(comic_generations) + 1
              /\ workflow_results' = [generation_id |-> Len(comic_generations) + 1]
              /\ wfOutcome' = "none"
              /\ pc' = "agent1"
         ELSE /\ comic_generations' = comic_generations
              /\ generation_id' = 0
              /\ workflow_results' = EmptyMap
              /\ wfOutcome' = "raised"
              /\ pc' = "returned"
    /\ UNCHANGED <<envVars, agent_logs, generated_images_paths, textVars, parseVars, renderVars, qaVars, retryVars, updVars, charVars>>

\* an orchestrator that does not test result.success
AfterAgent_IgnoreFailure(result, raised, next) ==
    IF ~raised THEN next ELSE "handler"

\* `if not result.success: raise Exception(...)`: where the workflow goes
\* after an agent's execute (raised: execute itself raised)
AfterAgent(result, raised, next) ==
    IF ~raised /\ result.success THEN next ELSE "handler"

\* agent.execute(input, generation_id, k) and the orchestrator's test of its
\* result. log_execution runs after the agent's try/except: when the insert
\* fails (logOk false) execute raises into the workflow's handler. fault is
\* what went wrong inside the agent's try block ("none": nothing).
Invoke(k, fault, result, logOk, next) ==
    /\ invocations' = Append(invocations,
           [step |-> k,
            outcome |-> IF ~logOk THEN "raised"
                        ELSE IF result.success THEN "success" ELSE "failure",
            fault |-> fault])
    /\ agent_logs' = IF logOk THEN LogExecution(agent_logs, generation_id, k, result)
                     ELSE agent_logs
    /\ pc' = AfterAgent(result, ~logOk, next)
    /\ IF logOk /\ result.success
       THEN /\ workflow_results' = Put(workflow_results, ResultKey(k), result.data[1])
            /\ exc' = exc
       ELSE /\ workflow_results' = workflow_results
            /\ exc' = IF logOk THEN "agent failed" ELSE "datastore error"
    /\ UNCHANGED <<envVars, comic_generations, runs, generation_id, wfOutcome,
                   drvVars, textVars, parseVars, renderVars, qaVars, retryVars, updVars, charVars>>

\* an orchestrator that goes from step 1 straight to step 3
ContentAgent_SkipPlanning ==
    /\ pc = "agent1"
    /\ \E fault \in {"none", "backend", "store"}, logOk \in BOOLEAN :
         \E script \in (IF fault = "none" THEN Scripts ELSE {MkScript(<<>>)}) :
            Invoke(1, fault, ContentResult(script, fault), logOk, "agent3")

ContentAgent ==
    /\ pc = "agent1"
    /\ \E fault \in {"none", "backend", "store"}, logOk \in BOOLEAN :
         \E script \in (IF fault = "none" THEN Scripts ELSE {MkScript(<<>>)}) :
            Invoke(1, fault, ContentResult(script, fault), logOk, "agent2")

\* an orchestrator that merges the planning payload into the input of the
\* visual generation agent
VisualInput_WithPlanning(results) ==
    [f \in (DOMAIN results["content_intelligence"])
            \cup (DOMAIN results["educational_planning"]) |->
        IF f \in DOMAIN results["educational_planning"]
        THEN results["educational_planning"][f]
        ELSE results["content_intelligence"][f]]

\* visual_input = {**user_input, **content_result.data}: the request is the
\* same for the whole run, the input is known by the content payload
VisualInput(results) == results["content_intelligence"]

\* qa_input = {**user_input, **content_result.data}
QAInput(results) == results["content_intelligence"]

PlanningAgent ==
    /\ pc = "agent2"
    /\ \E fault \in {"none", "backend"}, logOk \in BOOLEAN :
         \E objectives \in (IF fault = "none" THEN ObjectiveCounts ELSE {0}) :
            Invoke(2, fault, PlanningResult(objectives, fault), logOk, "agent3")

VisualAgent ==
    /\ pc = "agent3"
    /\ \E fault \in {"none", "backend"}, logOk \in BOOLEAN :
         Invoke(3, fault, VisualResult(VisualInput(workflow_results), fault),
                logOk, "agent4")

QAAgent ==
    /\ pc = "agent4"
    /\ \E fault \in {"none", "backend"}, logOk \in BOOLEAN :
         \E approved \in (IF fault = "none" THEN BOOLEAN ELSE {TRUE}) :
            \E improvements \in (IF fault = "none" /\ ~approved
                                 THEN {<<>>, <<"improvement">>} ELSE {<<>>}) :
               Invoke(4, fault, QAResult(QAInput(workflow_results), approved, improvements,
                                         fault), logOk, "finalize")

\* the mapping with quality_warning set when QA did not approve
WithQualityWarning(results) ==
    IF ~results["quality_assurance"].approval_status
    THEN Put(results, "quality_warning", results["quality_assurance"].improvements_needed)
    ELSE results

\* lines 531-538: the mapping returned on completion
CompletedResult(results) ==
    Put(results, "execution_summary", [status |-> "completed", steps_completed |-> 4])

\* an except branch that returns the summary without the key error
FailedResult_NoErrorKey(results, msg) ==
    Put(results, "execution_summary", [status |-> "failed", error_message |-> msg])

\* lines 547-554: the mapping returned by the except branch
FailedResult(results, msg) ==
    Put(Put(results, "error", msg), "execution_summary",
        [status |-> "failed", error_message |-> msg])

\* lines 509-538: the warning, the 'completed' update, the summary, return
Finalize ==
    /\ pc = "finalize"
    /\ \E dbOk \in BOOLEAN :
         IF dbOk /\ UpdateStatementValid(updated_at_column)
         THEN /\ comic_generations' =
                    UpdateComicGenerationStatus(comic_generations, generation_id,
                                                "completed", FALSE)
              /\ workflow_results' = CompletedResult(WithQualityWarning(workflow_results))
              /\ wfOutcome' = "returned"
              /\ exc' = exc
              /\ pc' = "returned"
         ELSE /\ comic_generations' = comic_generations
              /\ workflow_results' = WithQualityWarning(workflow_results)
              /\ wfOutcome' = wfOutcome
              /\ exc' = "datastore error"
              /\ pc' = "handler"
    /\ UNCHANGED <<envVars, agent_logs, runs, generation_id, invocations,
                   drvVars, textVars, parseVars, renderVars, qaVars, retryVars, updVars, charVars>>

\* lines 540-554: the except branch; its own update is not guarded
Handler ==
    /\ pc = "handler"
    /\ \E dbOk \in BOOLEAN :
         IF dbOk /\ UpdateStatementValid(updated_at_column)
         THEN /\ comic_generations' =
                    UpdateComicGenerationStatus(comic_generations, generation_id,
                                                "failed", FALSE)
              /\ workflow_results' = FailedResult(workflow_results, exc)
              /\ wfOutcome' = "returned"
         ELSE /\ comic_generations' = comic_generations
              /\ workflow_results' = workflow_results
              /\ wfOutcome' = "raised"
    /\ pc' = "returned"
    /\ UNCHANGED <<envVars, agent_logs, runs, generation_id, invocations, exc,
                   drvVars, textVars, parseVars, renderVars, qaVars, retryVars, updVars, charVars>>

\* ------------------------------------------------------------------------
\* Image rendering (imagen_client.py, GenerateComicAgentic.py)
\* ------------------------------------------------------------------------
\* What the environment does to one rendering: b1, b2 the image backend's
\* answers to the specialized and the generic call, p1, p2 the client's
\* placeholder bitmaps, f1, f2 the driver's fallback bitmaps (TRUE = works)
RenderEnvs == [b1 : BOOLEAN, p1 : BOOLEAN, b2 : BOOLEAN, p2 : BOOLEAN,
               f1 : BOOLEAN, f2 : BOOLEAN]

\* GoogleImagenClient.generate_image: the backend's image, else the
\* client's placeholder, else the placeholder's exception
GenerateImage(backendOk, placeholderOk) ==
    IF backendOk THEN "image"
    ELSE IF placeholderOk THEN "placeholder"
    ELSE "raise"

\* _create_fallback_image
CreateFallbackImage(ok) == IF ok THEN "fallback" ELSE "raise"

\* generate_image_with_google_imagen (stable_diff): with a client the
\* generic call and on its exception the fallback bitmap; without one the
\* fallback bitmap, tried again by the except branch when it raises
GenerateImageWithGoogleImagen(client, e) ==
    IF client
    THEN IF GenerateImage(e.b2, e.p2) # "raise" THEN GenerateImage(e.b2, e.p2)
         ELSE CreateFallbackImage(e.f1)
    ELSE IF CreateFallbackImage(e.f1) # "raise" THEN CreateFallbackImage(e.f1)
         ELSE CreateFallbackImage(e.f2)

\* the chain of start() lines 310-317 and process_comic_page lines 221-234:
\* the specialized call (generate_comic_poster, generate_comic_panel), on
\* its exception stable_diff
RenderChain(client, e) ==
    IF client /\ GenerateImage(e.b1, e.p1) # "raise"
    THEN GenerateImage(e.b1, e.p1)
    ELSE GenerateImageWithGoogleImagen(client, e)

\* the answers of the image backend (client.models.generate_content) to the
\* calls one rendering makes
ChainCalls(client, e) ==
    IF ~client THEN {}
    ELSE IF GenerateImage(e.b1, e.p1) = "raise"
    THEN {IF e.b1 THEN "ok" ELSE "failed", IF e.b2 THEN "ok" ELSE "failed"}
    ELSE {IF e.b1 THEN "ok" ELSE "failed"}

\* what one rendering can come to: the bitmap's kind (or "raise") and the
\* backend's answers on the way
Renderings(client) ==
    {[kind |-> RenderChain(client, e), calls |-> ChainCalls(client, e)] : e \in RenderEnvs}

\* the file a rendering leaves: image names are random, one per rendering
Path(run, scene, kind) == [run |-> run, scene |-> scene, kind |-> kind]

\* ------------------------------------------------------------------------
\* self.generated_images_paths: a dict, kept as its items in insertion order
\* ------------------------------------------------------------------------
Keys(d) == {d[i].k : i \in 1..Len(d)}

\* d[k] = v: a present key keeps its position
DictSet(d, k, v) ==
    IF k \in Keys(d)
    THEN [i \in 1..Len(d) |-> IF d[i].k = k THEN [k |-> k, v |-> v] ELSE d[i]]
    ELSE Append(d, [k |-> k, v |-> v])

Min(S) == CHOOSE x \in S : \A y \in S : x <= y

RECURSIVE ItemsOf(_, _)
ItemsOf(d, ks) ==
    IF ks = {} THEN <<>>
    ELSE LET m == Min(ks)
             i == CHOOSE j \in 1..Len(d) : d[j].k = m
         IN <<d[i]>> \o ItemsOf(d, ks \ {m})

\* the items left in insertion order
SortedItems_InsertionOrder(d) == d

\* dict(sorted(d.items())): the items by ascending key
SortedItems(d) == ItemsOf(d, Keys(d))

\* list(d.values())
Values(d) == [i \in 1..Len(d) |-> d[i].v]

\* ------------------------------------------------------------------------
\* The rendering driver: start() after execute_workflow
\* ------------------------------------------------------------------------
Error(msg) == [kind |-> "error", error |-> msg]

NoImagesError == "No images were generated successfully"

RECURSIVE SelectType(_, _)
SelectType(vps, type) ==
    IF vps = <<>> THEN <<>>
    ELSE (IF Head(vps).type = type THEN <<Head(vps)>> ELSE <<>>)
         \o SelectType(Tail(vps), type)

\* a start() that does not test the key error of the returned mapping
CheckWorkflow_IgnoreError ==
    /\ pc = "returned"
    /\ IF wfOutcome = "raised"
       THEN /\ startResult' = Error(IF exc = "" THEN "datastore error" ELSE exc)
            /\ UNCHANGED <<scenes, prompts, workflow_results>>
            /\ pc' = "idle"
       ELSE IF Has(workflow_results, "error")
       THEN /\ startResult' = startResult
            /\ UNCHANGED <<scenes, prompts, workflow_results>>
            /\ pc' = "poster"
       ELSE /\ startResult' = startResult
            /\ scenes' = workflow_results["content_intelligence"].scenes
            /\ prompts' = workflow_results["visual_generation"].visual_prompts
            /\ workflow_results' = [generation_id |-> workflow_results["generation_id"]]
            /\ pc' = "poster"
    /\ UNCHANGED <<envVars, dbVars, runs, generation_id, invocations,
                   exc, wfOutcome, generated_images_paths, futures, backendCalls, pdf,
                   images, textVars, parseVars, renderVars, qaVars, retryVars, updVars, charVars>>

\* lines 280-300: an exception of execute_workflow and a result tagged
\* error both end start() in its except branch. Of a completed result
\* start() goes on to read the scenes, the visual prompts and the
\* generation_id, which are kept; the rest of the mapping is not read again.
CheckWorkflow ==
    /\ pc = "returned"
    /\ IF wfOutcome = "raised"
       THEN /\ startResult' = Error(IF exc = "" THEN "datastore error" ELSE exc)
            /\ UNCHANGED <<scenes, prompts, workflow_results>>
            /\ pc' = "idle"
       ELSE IF Has(workflow_results, "error")
       THEN /\ startResult' = Error("Agentic workflow failed")
            /\ UNCHANGED <<scenes, prompts, workflow_results>>
            /\ pc' = "idle"
       ELSE /\ startResult' = startResult
            /\ scenes' = workflow_results["content_intelligence"].scenes
            /\ prompts' = workflow_results["visual_generation"].visual_prompts
            /\ workflow_results' = [generation_id |-> workflow_results["generation_id"]]
            /\ pc' = "poster"
    /\ UNCHANGED <<envVars, dbVars, runs, generation_id, invocations,
                   exc, wfOutcome, generated_images_paths, futures, backendCalls, pdf,
                   images, textVars, parseVars, renderVars, qaVars, retryVars, updVars, charVars>>

\* lines 302-320: the poster, rendered by the main thread
Poster ==
    /\ pc = "poster"
    /\ LET poster_prompts == SelectType(prompts, "poster") IN
       IF poster_prompts = <<>>
       THEN /\ pc' = "submit"
            /\ UNCHANGED <<generated_images_paths, backendCalls, startResult>>
       ELSE \E r \in Renderings(imagen_client) :
              /\ backendCalls' = backendCalls \cup r.calls
              /\ IF r.kind = "raise"
                 THEN /\ startResult' = Error("Failed to create fallback image")
                      /\ generated_images_paths' = generated_images_paths
                      /\ pc' = "idle"
                 ELSE /\ startResult' = startResult
                      /\ generated_images_paths' =
                            DictSet(generated_images_paths, 0, Path(runs, 0, r.kind))
                      /\ pc' = "submit"
    /\ UNCHANGED <<envVars, dbVars, runs, generation_id, workflow_results, invocations,
                   exc, wfOutcome, scenes, prompts, futures, pdf, images, textVars, parseVars, renderVars, qaVars, retryVars, updVars, charVars>>

\* scene_prompt_map: the scene_numbers of the scene prompts, by first occurrence
RECURSIVE SceneNumbers(_, _)
SceneNumbers(sps, seen) ==
    IF sps = <<>> THEN <<>>
    ELSE IF Head(sps).scene_number \in seen THEN SceneNumbers(Tail(sps), seen)
    ELSE <<Head(sps).scene_number>>
         \o SceneNumbers(Tail(sps), seen \cup {Head(sps).scene_number})

\* the last prompt of the scene instead of the first
MainPrompt_Last(sps, n) ==
    sps[CHOOSE i \in 1..Len(sps) :
            /\ sps[i].scene_number = n
            /\ \A j \in (i + 1)..Len(sps) : sps[j].scene_number # n].prompt

\* scene_prompts_list[0]['prompt']
MainPrompt(sps, n) ==
    sps[CHOOSE i \in 1..Len(sps) :
            /\ sps[i].scene_number = n
            /\ \A j \in 1..(i - 1) : sps[j].scene_number # n].prompt

\* next((s for s in scenes if s.get('scene_number') == scene_num), {}):
\* <<>> stands for the empty mapping
SceneData(ss, n) ==
    IF \E i \in 1..Len(ss) : ss[i].scene_number = n
    THEN <<ss[CHOOSE i \in 1..Len(ss) :
                     /\ ss[i].scene_number = n
                     /\ \A j \in 1..(i - 1) : ss[j].scene_number # n]>>
    ELSE <<>>

\* the futures of lines 338-352, one per key of scene_prompt_map
Submitted(vps, ss) ==
    LET sps == SelectType(vps, "scene")
        nums == SceneNumbers(sps, {})
    IN [i \in 1..Len(nums) |->
           [scene_num |-> nums[i],
            scene_data |-> SceneData(ss, nums[i]),
            main_prompt |-> MainPrompt(sps, nums[i]),
            state |-> "queued",
            result |-> "pending"]]

\* lines 324-352: every scene task is submitted to the pool
SubmitScenes ==
    /\ pc = "submit"
    /\ futures' = Submitted(prompts, scenes)
    /\ pc' = "wait"
    /\ UNCHANGED <<envVars, dbVars, runs, generation_id, workflow_results, invocations,
                   exc, wfOutcome, generated_images_paths, scenes, prompts, backendCalls, pdf,
                   images, startResult, textVars, parseVars, renderVars, qaVars, retryVars, updVars, charVars>>

\* a pool that starts every queued task at once, whatever its width
CanStart_NoLimit(fs, i) ==
    /\ fs[i].state = "queued"
    /\ \A j \in 1..(i - 1) : fs[j].state # "queued"

\* a free worker takes the oldest queued task
CanStart(fs, i) ==
    /\ fs[i].state = "queued"
    /\ \A j \in 1..(i - 1) : fs[j].state # "queued"
    /\ Cardinality({j \in 1..Len(fs) : fs[j].state \in {"running", "rendered"}})
          < max_workers

TaskStart(i) ==
    /\ pc = "wait"
    /\ i \in 1..Len(futures)
    /\ CanStart(futures, i)
    /\ futures' = [futures EXCEPT ![i].state = "running"]
    /\ UNCHANGED <<envVars, dbVars, wfVars, generated_images_paths, scenes, prompts,
                   backendCalls, pdf, images, startResult, textVars, parseVars, renderVars, qaVars, retryVars, updVars, charVars>>

\* every task writes the slot of the default scene_number
SlotOf_Default(task) == 0

\* scene_data.get('scene_number', 0)
SlotOf(task) == IF task.scene_data = <<>> THEN 0 ELSE task.scene_data[1].scene_number

\* process_comic_page lines 217-239: the rendering chain and the write of
\* the task's result slot; an exception ends the task with None
TaskRender(i) ==
    /\ pc = "wait"
    /\ i \in 1..Len(futures)
    /\ futures[i].state = "running"
    /\ \E r \in Renderings(imagen_client) :
         LET t == futures[i]
         IN /\ backendCalls' = backendCalls \cup r.calls
            /\ IF r.kind = "raise"
               THEN /\ futures' = [futures EXCEPT ![i].state = "done",
                                                  ![i].result = "None"]
                    /\ generated_images_paths' = generated_images_paths
               ELSE /\ futures' = [futures EXCEPT ![i].state = "rendered"]
                    /\ generated_images_paths' =
                          DictSet(generated_images_paths, SlotOf(t),
                                  Path(runs, t.scene_num, r.kind))
    /\ UNCHANGED <<envVars, dbVars, wfVars, scenes, prompts, pdf, images, startResult, textVars, parseVars, renderVars, qaVars, retryVars, updVars, charVars>>

\* process_comic_page lines 241-256: the text overlay; its exception ends
\* the task with None, the slot already written
TaskOverlay(i) ==
    /\ pc = "wait"
    /\ i \in 1..Len(futures)
    /\ futures[i].state = "rendered"
    /\ \E overlayOk \in BOOLEAN :
         LET t == futures[i]
             dialogues == IF t.scene_data = <<>> THEN <<>> ELSE t.scene_data[1].dialogues
         IN /\ (dialogues = <<>>) => overlayOk
            /\ futures' = [futures EXCEPT ![i].state = "done",
                                          ![i].result = IF overlayOk THEN "path"
                                                        ELSE "None"]
    /\ UNCHANGED <<envVars, dbVars, wfVars, generated_images_paths, scenes, prompts,
                   backendCalls, pdf, images, startResult, textVars, parseVars, renderVars, qaVars, retryVars, updVars, charVars>>

\* a join that returns as soon as one task has finished
AllDone_FirstCompleted(fs) == fs = <<>> \/ \E i \in 1..Len(fs) : fs[i].state = "done"

AllDone(fs) == \A i \in 1..Len(fs) : fs[i].state = "done"

\* a filter that keeps only the None entries
FilterNone_KeepNone(paths) == SelectSeq(paths, LAMBDA v : v.kind = "None")

\* [path for path in generated_images_paths if path is not None]
FilterNone(paths) == SelectSeq(paths, LAMBDA v : v.kind # "None")

\* the list of lines 361-365: the values by ascending key, None dropped
ImageList(d) == FilterNone(Values(SortedItems(d)))

\* lines 355-388: the join, then document assembly and the final update
Assemble ==
    /\ pc = "wait"
    /\ AllDone(futures)
    /\ images' = ImageList(generated_images_paths)
    /\ IF ImageList(generated_images_paths) = <<>>
       THEN /\ startResult' = Error(NoImagesError)
            /\ pdf' = pdf
            /\ comic_generations' = comic_generations
       ELSE \E pdfOk \in BOOLEAN, dbOk \in BOOLEAN :
              IF ~pdfOk
              THEN /\ startResult' = Error("Error occurred during image to PDF conversion")
                   /\ pdf' = pdf
                   /\ comic_generations' = comic_generations
              ELSE /\ pdf' = ImageList(generated_images_paths)
                   /\ IF dbOk /\ UpdateStatementValid(updated_at_column)
                      THEN /\ comic_generations' =
                                 UpdateComicGenerationStatus(comic_generations,
                                                             generation_id, "completed", TRUE)
                           /\ startResult' = [kind |-> "images", error |-> ""]
                      ELSE /\ comic_generations' = comic_generations
                           /\ startResult' = Error("datastore error")
    /\ pc' = "idle"
    /\ UNCHANGED <<envVars, agent_logs, runs, generation_id, workflow_results,
                   invocations, exc, wfOutcome, generated_images_paths, scenes, prompts, futures,
                   backendCalls, textVars, parseVars, renderVars, qaVars, retryVars, updVars, charVars>>

\* the start() call on a fresh instance
StartCall == runs = 0 /\ Start

\* a start() call on an instance that may have served calls before
StartAgain == runs < MaxCalls /\ Start

\* everything start() does after it was entered
Run ==
    \/ ContentAgent
    \/ PlanningAgent
    \/ VisualAgent
    \/ QAAgent
    \/ Finalize
    \/ Handler
    \/ CheckWorkflow
    \/ Poster
    \/ SubmitScenes
    \/ \E i \in 1..MaxScenes : TaskStart(i)
    \/ \E i \in 1..MaxScenes : TaskRender(i)
    \/ \E i \in 1..MaxScenes : TaskOverlay(i)
    \/ Assemble

\* ------------------------------------------------------------------------
\* add_line_breaks (GenerateComicAgentic.py)
\* ------------------------------------------------------------------------
\* A text is a sequence of tokens: a word i >= 1, a space 0, a newline -1.
Space == 0
Newline == 0 - 1

\* text.split(): the words, every run of whitespace dropped
Split(t) == SelectSeq(t, LAMBDA c : c > 0)

RECURSIVE WrapFrom(_, _)
WrapFrom(words, i) ==
    IF i > Len(words) THEN <<>>
    ELSE <<words[i], IF i % WordsPerLine = 0 THEN Newline ELSE Space>>
         \o WrapFrom(words, i + 1)

\* add_line_breaks: after every word a newline if it is a 7th word, a
\* space otherwise
AddLineBreaks(t) == WrapFrom(Split(t), 1)

RECURSIVE JoinWords(_, _)
JoinWords(n, gap) ==
    IF n = 0 THEN <<>>
    ELSE IF n = 1 THEN <<1>>
    ELSE JoinWords(n - 1, gap) \o gap \o <<n>>

\* dialogue texts of up to MaxWords words, separated by a space, two
\* spaces or a newline, with or without a leading space
Texts ==
    {lead \o JoinWords(n, gap) :
        n \in 0..MaxWords, gap \in {<<Space>>, <<Space, Space>>, <<Newline>>},
        lead \in {<<>>, <<Space>>}}

InitText ==
    /\ updated_at_column = FALSE
    /\ imagen_client = FALSE
    /\ IdleRun
    /\ text \in Texts
    /\ new_text = <<>>
    /\ NoParse
    /\ NoRender
    /\ NoQA
    /\ NoRetry
    /\ NoUpdate
    /\ NoExtract

\* text = self.add_line_breaks(combined_text); new_text is <<result>>
CallAddLineBreaks ==
    /\ new_text = <<>>
    /\ new_text' = <<AddLineBreaks(text)>>
    /\ UNCHANGED <<envVars, dbVars, wfVars, drvVars, text, parseVars, renderVars, qaVars, retryVars, updVars, charVars>>

NextText == CallAddLineBreaks

SpecText == InitText /\ [][NextText]_vars

Next == StartCall \/ Run

Spec == Init /\ [][Next]_vars

NextReuse == StartAgain \/ Run

SpecReuse == Init /\ [][NextReuse]_vars

\* ========================================================================
\* Properties
\* ========================================================================
\* the start() call has returned
Returned == pc = "idle" /\ runs > 0

\* execute_workflow has created its record and has ended (returned or raised)
WorkflowEnded ==
    /\ generation_id > 0
    /\ pc \notin {"agent1", "agent2", "agent3", "agent4", "finalize", "handler"}

AllSucceeded ==
    /\ Len(invocations) = 4
    /\ \A i \in 1..4 : invocations[i].outcome = "success"

\* the agent_logs rows of the current generation
RunLogs == SelectSeq(agent_logs, LAMBDA row : row.generation_id = generation_id)

Count(seq, x) == Cardinality({i \in 1..Len(seq) : seq[i] = x})

\* ------------------------------------------------------------------------
\* C1: once execute_workflow (and the enclosing start() call) has finished,
\* the persisted status of the run's GenerationRecord is completed or
\* failed, never processing.
\* ------------------------------------------------------------------------
C1_TerminalStatus ==
    WorkflowEnded =>
        comic_generations[generation_id].status \in {"completed", "failed"}

\* ------------------------------------------------------------------------
\* C2: when agent k returns success=false the workflow is in its failure
\* path (the except branch, then a result tagged error or the handler's own
\* exception; never completed) and no agent with a greater step number is
\* invoked in that run.
\* ------------------------------------------------------------------------
C2_FailureStopsWorkflow ==
    \A i \in 1..Len(invocations) :
        invocations[i].outcome = "failure" =>
            /\ \A j \in 1..Len(invocations) : invocations[j].step <= invocations[i].step
            /\ pc \in {"handler", "returned", "idle"}
            /\ wfOutcome = "returned" =>
                  /\ Has(workflow_results, "error")
                  /\ workflow_results["execution_summary"].status = "failed"
            /\ comic_generations[generation_id].status # "completed"

C2_Witness ==
    /\ Returned
    /\ Len(invocations) = 2
    /\ invocations[2].outcome = "failure"
    /\ comic_generations[generation_id].status = "failed"

\* ------------------------------------------------------------------------
\* C3: a run in which all four agents succeed has exactly 4 agent_logs
\* rows for its generation_id, one per agent, with step_numbers 1, 2, 3, 4,
\* none repeated.
\* ------------------------------------------------------------------------
C3_FourLogRows ==
    AllSucceeded =>
        /\ Len(RunLogs) = 4
        /\ \A k \in 1..4 :
              Cardinality({i \in 1..Len(RunLogs) : RunLogs[i].step_number = k}) = 1
        /\ \A i \in 1..Len(RunLogs) :
              RunLogs[i].agent_name = AgentName(RunLogs[i].step_number)

C3_Witness ==
    /\ AllSucceeded
    /\ pc = "returned"
    /\ wfOutcome = "returned"
    /\ workflow_results["execution_summary"].status = "completed"

\* ------------------------------------------------------------------------
\* C4: execute(input, generation_id, step_number) of an agent never raises
\* to its caller, whatever call it makes fails (the logging call included).
\* ------------------------------------------------------------------------
C4_ExecuteNeverRaises ==
    \A i \in 1..Len(invocations) : invocations[i].outcome # "raised"

\* ------------------------------------------------------------------------
\* C5: execute_workflow never raises to its caller, whatever backend or
\* datastore call fails during the run.
\* ------------------------------------------------------------------------
C5_WorkflowNeverRaises == wfOutcome # "raised"

\* ------------------------------------------------------------------------
\* C6: the mapping execute_workflow returns carries execution_summary.status
\* in {completed, failed}, holds the key error exactly when the status is
\* failed, and when completed holds the payloads of all four agents.
\* ------------------------------------------------------------------------
C6_ReturnedMapping ==
    (pc = "returned" /\ wfOutcome = "returned") =>
        /\ Has(workflow_results, "execution_summary")
        /\ workflow_results["execution_summary"].status \in {"completed", "failed"}
        /\ Has(workflow_results, "error")
              <=> workflow_results["execution_summary"].status = "failed"
        /\ workflow_results["execution_summary"].status = "completed" =>
              /\ \A k \in 1..4 : Has(workflow_results, ResultKey(k))
              /\ workflow_results["content_intelligence"].scenes =
                    ParseEducationalContent(
                        workflow_results["content_intelligence"].educational_content)
              /\ workflow_results["educational_planning"].objectives_count \in ObjectiveCounts
              /\ workflow_results["visual_generation"].visual_prompts =
                    VisualPrompts(workflow_results["content_intelligence"].scenes)
              /\ workflow_results["quality_assurance"].approval_status \in BOOLEAN

C6_Witness ==
    /\ pc = "returned"
    /\ wfOutcome = "returned"
    /\ Has(workflow_results, "error")
    /\ Has(workflow_results, "content_intelligence")
    /\ ~Has(workflow_results, "visual_generation")

\* ------------------------------------------------------------------------
\* C7: add_line_breaks of a text of exactly 14 words returns a text with
\* exactly one line break, placed after word 7.
\* ------------------------------------------------------------------------
C7_OneBreakAfterWord7 ==
    (new_text # <<>> /\ Len(Split(text)) = 14) =>
        /\ Count(new_text[1], Newline) = 1
        /\ \E i \in 1..Len(new_text[1]) - 1 :
              new_text[1][i] = 7 /\ new_text[1][i + 1] = Newline

\* ------------------------------------------------------------------------
\* C8: for a start() call whose prompt list has N distinct scene_numbers,
\* the image list handed to document assembly has at most N + 1 entries.
\* ------------------------------------------------------------------------
C8_AtMostNPlusOneImages ==
    Len(images) <=
        Cardinality({prompts[i].scene_number :
                        i \in {j \in 1..Len(prompts) : prompts[j].type = "scene"}}) + 1

\* ------------------------------------------------------------------------
\* C9: the pages of the assembled document are in strictly ascending
\* scene_number order, the poster (scene_number 0) first, whatever order the
\* scene tasks finished in.
\* ------------------------------------------------------------------------
C9_PagesAscending ==
    /\ \A i, j \in 1..Len(pdf) : i < j => pdf[i].scene < pdf[j].scene
    /\ pdf # <<>> => pdf[1].scene = 0

\* scene 2's task wrote its slot before scene 1's
C9_Witness ==
    /\ Len(pdf) = 3
    /\ Len(generated_images_paths) = 3
    /\ generated_images_paths[2].k = 2
    /\ generated_images_paths[3].k = 1

\* ------------------------------------------------------------------------
\* C10 (as claimed): if the image backend fails for the poster and for every
\* scene, start() fails with the 'no images generated' condition and no
\* document is assembled.
\* ------------------------------------------------------------------------
C10_NoImagesWhenBackendFails ==
    (Returned /\ backendCalls = {"failed"}) =>
        /\ startResult = Error(NoImagesError)
        /\ pdf = <<>>

\* ------------------------------------------------------------------------
\* C10 (amended): if the image backend fails for the poster and for every
\* scene, start() does not end in the 'no images generated' condition: every
\* page rendered in the call is a locally synthesized bitmap (placeholder or
\* fallback) and the document is assembled from them; no document is
\* assembled only when the poster's fallback bitmap cannot be created or the
\* PDF conversion fails, and start() returns that error.
\* ------------------------------------------------------------------------
C10_PlaceholderDocument ==
    (Returned /\ backendCalls = {"failed"}) =>
        /\ startResult.error # NoImagesError
        /\ \A i \in 1..Len(pdf) :
              pdf[i].run = runs => pdf[i].kind \in {"placeholder", "fallback"}
        /\ pdf = <<>> =>
              startResult \in {Error("Failed to create fallback image"),
                               Error("Error occurred during image to PDF conversion")}

C10_Witness ==
    /\ Returned
    /\ backendCalls = {"failed"}
    /\ Len(pdf) = 3
    /\ \A i \in 1..3 : pdf[i].kind = "placeholder"
    /\ startResult.kind = "images"

\* the workflow of the current start() call returned a mapping without error
WorkflowCompleted == wfOutcome = "returned" /\ ~Has(workflow_results, "error")

\* scene_numbers whose task returned a path
SucceededScenes ==
    {futures[i].scene_num : i \in {j \in 1..Len(futures) : futures[j].result = "path"}}

\* scene_numbers whose task returned None
FailedScenes ==
    {futures[i].scene_num : i \in {j \in 1..Len(futures) : futures[j].result = "None"}}

\* ------------------------------------------------------------------------
\* C11: when start() produces a document, its page count is 1 (the poster)
\* plus the number of distinct scene_numbers whose rendering task succeeded.
\* ------------------------------------------------------------------------
C11_PageCount ==
    (Returned /\ pdf # <<>>) => Len(pdf) = 1 + Cardinality(SucceededScenes)

\* ------------------------------------------------------------------------
\* _parse_educational_content called on its own (SpecParse)
\* ------------------------------------------------------------------------
\* lines of a script text the parser is given
MaxLines == 3
\* parser calls on one script text
MaxParses == 2

\* the kinds of line the parser tells apart
LineKinds == {"SCENE", "CHARACTERS:", "EDUCATIONAL_SUMMARY:", "speaker", "plain"}

\* content.split('\n') of any script text of up to MaxLines lines
Contents == UNION {[1..n -> LineKinds] : n \in 0..MaxLines}

InitParse ==
    /\ updated_at_column = FALSE
    /\ imagen_client = FALSE
    /\ IdleRun
    /\ text = <<>>
    /\ new_text = <<>>
    /\ content \in Contents
    /\ parses = <<>>
    /\ NoRender
    /\ NoQA
    /\ NoRetry
    /\ NoUpdate
    /\ NoExtract

\* scenes = self._parse_educational_content(educational_content), on the
\* same agent or on a fresh one: the method reads no attribute of the agent
CallParse ==
    /\ Len(parses) < MaxParses
    /\ parses' = Append(parses, ParseEducationalContent(content))
    /\ UNCHANGED <<envVars, dbVars, wfVars, drvVars, textVars, content, renderVars, qaVars, retryVars, updVars, charVars>>

NextParse == CallParse

SpecParse == InitParse /\ [][NextParse]_vars

C13_SequentialAgents ==
    /\ Len(invocations) <= 4
    /\ \A i \in 1..Len(invocations) :
          /\ invocations[i].step = i
          /\ i < Len(invocations) => invocations[i].outcome = "success"
    /\ pc = "agent1" => Len(invocations) = 0
    /\ pc = "agent2" => Len(invocations) = 1 /\ invocations[1].outcome = "success"
    /\ pc = "agent3" => Len(invocations) = 2 /\ invocations[2].outcome = "success"
    /\ pc = "agent4" => Len(invocations) = 3 /\ invocations[3].outcome = "success"
    /\ pc = "finalize" => Len(invocations) = 4 /\ invocations[4].outcome = "success"

\* the run stopped at the visual generation agent
C13_Witness ==
    /\ pc = "handler"
    /\ Len(invocations) = 3
    /\ invocations[3].outcome = "failure"
    /\ AgentName(invocations[3].step) = "VisualGenerationAgent"

\* QA returned success=true with approval_status=false in the current run
QADisapproved ==
    /\ Has(workflow_results, "quality_assurance")
    /\ ~workflow_results["quality_assurance"].approval_status

\* ------------------------------------------------------------------------
\* C14: a QA result with approval_status=false (success=true) never moves
\* the workflow to failed: the run still reaches completed and the returned
\* mapping carries the improvement list under quality_warning, which is
\* present exactly when QA disapproved.
\* ------------------------------------------------------------------------
C14_DisapprovalStillCompletes ==
    /\ (pc = "returned" /\ QADisapproved) =>
          /\ wfOutcome = "returned"
          /\ workflow_results["execution_summary"].status = "completed"
          /\ Has(workflow_results, "quality_warning")
          /\ workflow_results["quality_warning"] =
                workflow_results["quality_assurance"].improvements_needed
    /\ (pc = "returned" /\ wfOutcome = "returned") =>
          (Has(workflow_results, "quality_warning") <=> QADisapproved)

\* ------------------------------------------------------------------------
\* C15: barrier join. While a submitted scene task has not finished
\* (returned or failed), start() is still waiting: it has not read the
\* result map, has assembled no document and has not returned.
\* ------------------------------------------------------------------------
C15_BarrierJoin ==
    (\E i \in 1..Len(futures) : futures[i].state # "done") =>
        /\ pc = "wait"
        /\ images = <<>>
        /\ pdf = <<>>
        /\ startResult = NoResult

\* two scene tasks, the second failed in its overlay, the document assembled
C15_Witness ==
    /\ Returned
    /\ Len(futures) = 2
    /\ futures[1].result = "path"
    /\ futures[2].result = "None"
    /\ Len(pdf) = 3

\* ------------------------------------------------------------------------
\* C16: after a workflow that completed, an empty surviving image set is the
\* only condition under which start() fails: no other failure of the
\* rendering driver makes start() return an error.
\* ------------------------------------------------------------------------
C16_OnlyEmptySetIsFatal ==
    (Returned /\ WorkflowCompleted /\ startResult.kind = "error") =>
        startResult = Error(NoImagesError)

\* ------------------------------------------------------------------------
\* C17: a scene whose rendering task failed (process_comic_page returned no
\* path) contributes no page to the assembled document, and the panels of
\* the scenes whose task succeeded are assembled.
\* ------------------------------------------------------------------------
C17_FailedSceneOmitted ==
    (Returned /\ pdf # <<>>) =>
        /\ \A n \in FailedScenes :
              \A i \in 1..Len(pdf) : ~(pdf[i].run = runs /\ pdf[i].scene = n)
        /\ \A n \in SucceededScenes :
              \E i \in 1..Len(pdf) : pdf[i].run = runs /\ pdf[i].scene = n

\* ------------------------------------------------------------------------
\* C18: in the Content Intelligence Agent a failure while persisting the raw
\* script does not fail the agent: script generation, character extraction
\* and scene parsing having succeeded, execute returns success=true with the
\* parsed data whether or not store_educational_content failed.
\* ------------------------------------------------------------------------
C18_StoreFailureTolerated ==
    \A i \in 1..Len(invocations) :
        (invocations[i].step = 1 /\ invocations[i].fault = "store") =>
            invocations[i].outcome # "failure"

\* the invocations of the current run that returned an AgentResult
ReturnedInvocations ==
    SelectSeq(invocations, LAMBDA inv : inv.outcome # "raised")

\* row i of the run's log is the row of invocation i
RowOf(i) ==
    /\ RunLogs[i].generation_id = generation_id
    /\ RunLogs[i].step_number = invocations[i].step
    /\ RunLogs[i].agent_name = AgentName(invocations[i].step)
    /\ RunLogs[i].status = "success" <=> invocations[i].outcome = "success"

GenerateImageTrace(backendOk, placeholderOk) ==
    IF backendOk THEN <<"backend_ok">>
    ELSE <<"backend_failed", IF placeholderOk THEN "placeholder" ELSE "placeholder_raise">>

\* _create_fallback_image
FallbackTrace(ok) == <<IF ok THEN "fallback" ELSE "fallback_raise">>

\* stable_diff -> generate_image_with_google_imagen
StableDiffTrace(client, e) ==
    IF client
    THEN <<"generic">> \o GenerateImageTrace(e.b2, e.p2)
         \o (IF GenerateImage(e.b2, e.p2) = "raise" THEN FallbackTrace(e.f1) ELSE <<>>)
    ELSE FallbackTrace(e.f1)
         \o (IF CreateFallbackImage(e.f1) = "raise" THEN FallbackTrace(e.f2) ELSE <<>>)

\* start() lines 310-317 and process_comic_page lines 221-234
ChainTrace(client, e) ==
    IF client
    THEN <<"specialized">> \o GenerateImageTrace(e.b1, e.p1)
         \o (IF GenerateImage(e.b1, e.p1) = "raise" THEN StableDiffTrace(client, e)
             ELSE <<>>)
    ELSE StableDiffTrace(client, e)

InitRender ==
    /\ updated_at_column = FALSE
    /\ imagen_client \in BOOLEAN
    /\ IdleRun
    /\ text = <<>>
    /\ new_text = <<>>
    /\ NoParse
    /\ render \in [target : {"poster", "scene"}, env : RenderEnvs, result : {"pending"}]
    /\ attempts = <<>>
    /\ NoQA
    /\ NoRetry
    /\ NoUpdate
    /\ NoExtract

\* the rendering of the poster (main thread) or of a scene panel (a task)
RenderOne ==
    /\ render.result = "pending"
    /\ attempts' = ChainTrace(imagen_client, render.env)
    /\ render' = [render EXCEPT !.result = RenderChain(imagen_client, render.env)]
    /\ UNCHANGED <<envVars, dbVars, wfVars, drvVars, textVars, parseVars, qaVars, retryVars, updVars, charVars>>

NextRender == RenderOne

SpecRender == InitRender /\ [][NextRender]_vars

\* ------------------------------------------------------------------------
\* C20: three-tier fallback for the poster and for every scene task: when
\* the image backend fails during the specialized call, the generic image
\* call is attempted next, and a local placeholder bitmap is synthesized
\* only after the generic call has also failed.
\* ------------------------------------------------------------------------
C20_ThreeTierOrder ==
    \A i \in 1..Len(attempts) :
        /\ (i > 1 /\ attempts[i - 1] = "specialized" /\ attempts[i] = "backend_failed") =>
              (i < Len(attempts) /\ attempts[i + 1] = "generic")
        /\ (imagen_client /\ attempts[i] \in {"placeholder", "fallback"}) =>
              \E j \in 1..(i - 2) :
                  attempts[j] = "generic" /\ attempts[j + 1] = "backend_failed"

\* indices of the scene-typed prompts start() read from the workflow result
ScenePromptIndices == {j \in 1..Len(prompts) : prompts[j].type = "scene"}

\* ------------------------------------------------------------------------
\* C21: for a prompt list in which several scene prompts share a
\* scene_number, start() submits exactly one rendering task per distinct
\* scene_number, and that task is given the first prompt of that
\* scene_number in prompt-list order; no task is given a later prompt.
\* ------------------------------------------------------------------------
C21_OneTaskPerSceneFirstPrompt ==
    (pc = "wait" \/ futures # <<>>) =>
        /\ {futures[i].scene_num : i \in 1..Len(futures)} =
              {prompts[j].scene_number : j \in ScenePromptIndices}
        /\ \A i, k \in 1..Len(futures) :
              futures[i].scene_num = futures[k].scene_num => i = k
        /\ \A i \in 1..Len(futures) :
              \E j \in ScenePromptIndices :
                  /\ prompts[j].scene_number = futures[i].scene_num
                  /\ prompts[j].prompt = futures[i].main_prompt
                  /\ \A l \in ScenePromptIndices :
                        prompts[l].scene_number = futures[i].scene_num => j <= l

\* two scenes of two dialogue lines each: four scene prompts, two tasks
C21_Witness ==
    /\ pc = "wait"
    /\ Len(prompts) = 5
    /\ Len(futures) = 2
    /\ futures[2].main_prompt # prompts[5].prompt

\* ------------------------------------------------------------------------
\* The worker pool on its own (SpecPool): start() from the submission of
\* the scene tasks on, for a script of up to MaxTasks scenes
\* ------------------------------------------------------------------------
\* scenes of the script, one rendering task each
MaxTasks == 4

\* a script of n scenes with one dialogue line each
PoolScript(n) == MkScript([i \in 1..n |-> 1])

\* the state of start() at line 324 on an instance built without an API
\* key (no image client): the workflow completed with four successful
\* agents and the poster was rendered
InitPool ==
    /\ updated_at_column = TRUE
    /\ imagen_client = FALSE
    /\ pc = "submit"
    /\ runs = 1
    /\ generation_id = 1
    /\ workflow_results = Put(EmptyMap, "generation_id", 1)
    /\ invocations = [k \in 1..4 |-> [step |-> k, outcome |-> "success", fault |-> "none"]]
    /\ exc = ""
    /\ wfOutcome = "returned"
    /\ comic_generations =
          UpdateComicGenerationStatus(LogComicGeneration(<<>>), 1, "completed", FALSE)
    /\ agent_logs = [k \in 1..4 |-> [generation_id |-> 1, agent_name |-> AgentName(k),
                                     step_number |-> k, status |-> "success"]]
    /\ \E n \in 0..MaxTasks :
         /\ scenes = ParseEducationalContent(PoolScript(n))
         /\ prompts = VisualPrompts(ParseEducationalContent(PoolScript(n)))
    /\ \E r \in Renderings(imagen_client) :
         /\ r.kind # "raise"
         /\ generated_images_paths = DictSet(<<>>, 0, Path(1, 0, r.kind))
         /\ backendCalls = r.calls
    /\ futures = <<>>
    /\ pdf = <<>>
    /\ images = <<>>
    /\ startResult = NoResult
    /\ text = <<>>
    /\ new_text = <<>>
    /\ NoParse
    /\ NoRender
    /\ NoQA
    /\ NoRetry
    /\ NoUpdate
    /\ NoExtract

NextPool ==
    \/ SubmitScenes
    \/ \E i \in 1..MaxTasks : TaskStart(i)
    \/ \E i \in 1..MaxTasks : TaskRender(i)
    \/ \E i \in 1..MaxTasks : TaskOverlay(i)
    \/ Assemble

\* the executor's worker threads take queued tasks while one of them is
\* free, and a task that was started runs to its return
PoolFairness ==
    /\ WF_vars(SubmitScenes)
    /\ \A i \in 1..MaxTasks :
          WF_vars(TaskStart(i)) /\ WF_vars(TaskRender(i)) /\ WF_vars(TaskOverlay(i))

SpecPool == InitPool /\ [][NextPool]_vars /\ PoolFairness

\* the tasks a worker thread is executing
Executing == {i \in 1..Len(futures) : futures[i].state \in {"running", "rendered"}}

\* ------------------------------------------------------------------------
\* C22: at most 3 scene rendering tasks execute at any moment, however many
\* were submitted; a task is taken up only while fewer than 3 are executing
\* (the others wait in the queue), and every submitted task is eventually
\* run.
\* ------------------------------------------------------------------------
C22_PoolWidth ==
    /\ [](Cardinality(Executing) <= 3)
    /\ (pc = "wait") ~> (\A i \in 1..Len(futures) : futures[i].state # "queued")

\* four tasks submitted: three execute, the fourth waits
C22_Witness ==
    /\ Len(futures) = 4
    /\ Cardinality(Executing) = 3
    /\ futures[4].state = "queued"

\* the slot of scene_number n in generated_images_paths, <<>> when unwritten
Slot(n) ==
    SelectSeq(generated_images_paths, LAMBDA item : item.k = n)

\* ------------------------------------------------------------------------
\* C23: each scene task writes only the result slot of its own
\* scene_number (never the poster's slot 0) and no two tasks write the same
\* slot; once a task has written, and after the join, the slot of its
\* scene holds the path that task produced.
\* ------------------------------------------------------------------------
C23_OwnSlot ==
    /\ \A i \in 1..Len(futures) :
          /\ SlotOf(futures[i]) = futures[i].scene_num
          /\ SlotOf(futures[i]) # 0
          /\ \A k \in 1..Len(futures) :
                SlotOf(futures[i]) = SlotOf(futures[k]) => i = k
          /\ (futures[i].state = "rendered" \/ futures[i].result = "path") =>
                /\ Len(Slot(futures[i].scene_num)) = 1
                /\ Slot(futures[i].scene_num)[1].v.run = runs
                /\ Slot(futures[i].scene_num)[1].v.scene = futures[i].scene_num
    /\ \A j \in 1..Len(generated_images_paths) :
          generated_images_paths[j].v.scene = generated_images_paths[j].k

\* the join is over, both tasks returned a path, each slot holds its own
C23_Witness ==
    /\ Returned
    /\ Len(futures) = 2
    /\ \A i \in 1..2 : futures[i].result = "path"
    /\ Slot(1) # <<>> /\ Slot(2) # <<>>
    /\ Slot(1)[1].v # Slot(2)[1].v

\* the dialogue lines of a scene list
RECURSIVE TotalDialogues(_)
TotalDialogues(ss) ==
    IF ss = <<>> THEN 0 ELSE Len(Head(ss).dialogues) + TotalDialogues(Tail(ss))

\* ------------------------------------------------------------------------
\* C24: on success the Visual Generation Agent returns a prompt list whose
\* first element is the poster prompt (type poster, scene_number 0), the
\* only one, followed by exactly one scene prompt per dialogue line, in
\* scene order and within a scene in dialogue order, each carrying its
\* scene's scene_number; total_prompts is 1 plus the number of dialogue
\* lines.
\* ------------------------------------------------------------------------
C24_PromptList ==
    (Has(workflow_results, "visual_generation")
        /\ Has(workflow_results, "content_intelligence")) =>
        LET vp == workflow_results["visual_generation"].visual_prompts
            ss == workflow_results["content_intelligence"].scenes
        IN /\ workflow_results["visual_generation"].total_prompts = Len(vp)
           /\ Len(vp) = 1 + TotalDialogues(ss)
           /\ vp[1].type = "poster" /\ vp[1].scene_number = 0
           /\ \A i \in 2..Len(vp) : vp[i].type = "scene"
           /\ \A s \in 1..Len(ss) :
                 \A d \in 1..Len(ss[s].dialogues) :
                     LET i == 1 + TotalDialogues(SubSeq(ss, 1, s - 1)) + d
                     IN /\ vp[i].scene_number = ss[s].scene_number
                        /\ vp[i].prompt = ss[s].dialogues[d]

\* a script of one and two dialogue lines: the poster and three scene prompts
C24_Witness ==
    /\ Has(workflow_results, "visual_generation")
    /\ Has(workflow_results, "content_intelligence")
    /\ workflow_results["visual_generation"].total_prompts = 4
    /\ Len(workflow_results["content_intelligence"].scenes[1].dialogues) = 1

\* ------------------------------------------------------------------------
\* QualityAssuranceAgent.execute on one whole-script analysis (SpecQA)
\* ------------------------------------------------------------------------
\* lines of an analysis text
MaxAnalysisLines == 3

\* A line of an analysis: what it says (the IMPROVEMENTS: marker, an
\* approval line with YES or NO, other text, nothing), whether its marker
\* is written in capitals, and whether it is indented.
Line(kind, upper, indent) == [kind |-> kind, upper |-> upper, indent |-> indent]

AnalysisLines ==
    {Line("improvements", u, FALSE) : u \in BOOLEAN}
    \cup {Line(k, u, i) : k \in {"approval_yes", "approval_no"}, u \in BOOLEAN, i \in BOOLEAN}
    \cup {Line("text", FALSE, FALSE), Line("blank", FALSE, FALSE)}

\* generate_text returns response.text.strip(), and an empty response is an
\* error: an analysis begins with a character that is no white space and
\* ends with one, or it is the empty text (one empty line) of a response
\* of white space
Analyses ==
    {a \in UNION {[1..n -> AnalysisLines] : n \in 1..MaxAnalysisLines} :
        \/ a = <<Line("blank", FALSE, FALSE)>>
        \/ /\ a[1].kind # "blank" /\ ~a[1].indent
           /\ a[Len(a)].kind # "blank"}

\* str.upper(), str.strip()
Upper(line) == [line EXCEPT !.upper = TRUE]
Strip(line) == [line EXCEPT !.indent = FALSE]

\* 'IMPROVEMENTS:' in line
HasImprovements(line) == line.kind = "improvements" /\ line.upper

\* 'APPROVAL: YES' in line
HasApprovalYes(line) == line.kind = "approval_yes" /\ line.upper

\* line.startswith('APPROVAL:')
StartsWithApproval(line) ==
    line.kind \in {"approval_yes", "approval_no"} /\ line.upper /\ ~line.indent

\* an approval test that reads the analysis as it is written
ParseApprovalStatus_CaseSensitive(analysis) ==
    \E i \in 1..Len(analysis) : HasApprovalYes(analysis[i])

\* _parse_approval_status: "APPROVAL: YES" in analysis.upper()
ParseApprovalStatus(analysis) ==
    \E i \in 1..Len(analysis) : HasApprovalYes(Upper(analysis[i]))

\* _generate_improvements: the loop over analysis.split('\n')
RECURSIVE ImprovementsFrom(_, _, _, _)
ImprovementsFrom(lines, i, in_improvements_section, improvements) ==
    IF i > Len(lines) THEN improvements
    ELSE IF HasImprovements(Upper(lines[i]))
         THEN ImprovementsFrom(lines, i + 1, TRUE, improvements)
    ELSE IF in_improvements_section /\ Strip(lines[i]).kind # "blank"
         THEN IF ~StartsWithApproval(lines[i])
              THEN ImprovementsFrom(lines, i + 1, in_improvements_section,
                                    Append(improvements, Strip(lines[i])))
              ELSE improvements
    ELSE ImprovementsFrom(lines, i + 1, in_improvements_section, improvements)

GenerateImprovements(analysis) == ImprovementsFrom(analysis, 1, FALSE, <<>>)

\* the result data of QualityAssuranceAgent.execute
QAData(analysis, validations) ==
    LET approval_status == ParseApprovalStatus(analysis)
    IN [quality_analysis |-> analysis,
        scene_validations |-> validations,
        approval_status |-> approval_status,
        improvements_needed |-> IF ~approval_status THEN GenerateImprovements(analysis)
                                ELSE <<>>]

\* the analyses the backend wrote for the dialogue lines (none or one line)
DialogueAnalyses ==
    {<<>>, <<<<Line("approval_yes", TRUE, FALSE)>>>>, <<<<Line("approval_no", TRUE, FALSE)>>>>}

InitQA ==
    /\ updated_at_column = FALSE
    /\ imagen_client = FALSE
    /\ IdleRun
    /\ text = <<>>
    /\ new_text = <<>>
    /\ NoParse
    /\ NoRender
    /\ quality_analysis \in Analyses
    /\ dialogue_analyses \in DialogueAnalyses
    /\ qa = <<>>
    /\ NoRetry
    /\ NoUpdate
    /\ NoExtract

\* lines 250-294 of execute, the backend having answered
CallQA ==
    /\ qa = <<>>
    /\ qa' = <<QAData(quality_analysis, dialogue_analyses)>>
    /\ UNCHANGED <<envVars, dbVars, wfVars, drvVars, textVars, parseVars, renderVars,
                   quality_analysis, dialogue_analyses, retryVars, updVars, charVars>>

NextQA == CallQA

SpecQA == InitQA /\ [][NextQA]_vars

\* an approval line, however it is written
IsApprovalLine(line) == line.kind \in {"approval_yes", "approval_no"}

\* position of the first IMPROVEMENTS: marker, 0 if there is none
MarkerAt(a) ==
    IF \E i \in 1..Len(a) : a[i].kind = "improvements"
    THEN CHOOSE i \in 1..Len(a) :
            /\ a[i].kind = "improvements"
            /\ \A j \in 1..(i - 1) : a[j].kind # "improvements"
    ELSE 0

\* position of the first approval line after position m, Len(a) + 1 if none
ApprovalAfter(a, m) ==
    IF \E i \in (m + 1)..Len(a) : IsApprovalLine(a[i])
    THEN CHOOSE i \in (m + 1)..Len(a) :
            /\ IsApprovalLine(a[i])
            /\ \A j \in (m + 1)..(i - 1) : ~IsApprovalLine(a[j])
    ELSE Len(a) + 1

\* the non-empty lines strictly between the marker and the approval line
RECURSIVE LinesBetween(_, _, _)
LinesBetween(a, from, to) ==
    IF from >= to THEN <<>>
    ELSE (IF a[from].kind \in {"blank", "improvements"} THEN <<>> ELSE <<Strip(a[from])>>)
         \o LinesBetween(a, from + 1, to)

\* ------------------------------------------------------------------------
\* C25: when QA does not approve, the improvement list is exactly the
\* non-empty lines of the analysis that lie between the IMPROVEMENTS:
\* marker and the APPROVAL: line, in their order; the approval line itself
\* is never part of the list, whatever its letter case or indentation.
\* ------------------------------------------------------------------------
C25_ImprovementsBetweenMarkers ==
    (qa # <<>> /\ ~qa[1].approval_status) =>
        /\ \A i \in 1..Len(qa[1].improvements_needed) :
              ~IsApprovalLine(qa[1].improvements_needed[i])
        /\ qa[1].improvements_needed =
              (IF MarkerAt(quality_analysis) = 0 THEN <<>>
               ELSE LinesBetween(quality_analysis, MarkerAt(quality_analysis) + 1,
                                 ApprovalAfter(quality_analysis,
                                               MarkerAt(quality_analysis))))

\* ------------------------------------------------------------------------
\* C26: the approval flag of the QA result is true exactly when the
\* whole-script analysis contains 'APPROVAL: YES' in any letter case; the
\* analyses of the single dialogue lines never influence it; when it is
\* true the improvement list is empty.
\* ------------------------------------------------------------------------
C26_ApprovalFlag ==
    qa # <<>> =>
        /\ qa[1].approval_status <=>
              \E i \in 1..Len(quality_analysis) : quality_analysis[i].kind = "approval_yes"
        /\ qa[1].approval_status => qa[1].improvements_needed = <<>>

\* approved by a lower-case, indented approval line after an improvement,
\* while the analysis of a dialogue line said NO
C26_Witness ==
    /\ qa # <<>>
    /\ qa[1].approval_status
    /\ quality_analysis = <<Line("improvements", TRUE, FALSE), Line("text", FALSE, FALSE),
                            Line("approval_yes", FALSE, TRUE)>>
    /\ dialogue_analyses = <<<<Line("approval_no", TRUE, FALSE)>>>>

\* positions of the scene markers of the script text
Markers == {k \in 1..Len(content) : content[k] = "SCENE"}

\* the scene marker line i stands under, 0 before the first marker
MarkerOf(i) ==
    IF \E k \in Markers : k < i
    THEN CHOOSE k \in Markers : k < i /\ \A m \in Markers : m < i => m <= k
    ELSE 0

\* the scene of a Scene list that holds line i as a dialogue
HoldersOf(p, i) ==
    {n \in 1..Len(p) : \E d \in 1..Len(p[n].dialogues) : p[n].dialogues[d] = i}

\* ------------------------------------------------------------------------
\* C27: scene parsing returns a Scene list for every script text (it never
\* raises). Lines without a ':' separator, lines before the first scene
\* marker and the header lines (CHARACTERS:, EDUCATIONAL_SUMMARY:) become
\* no dialogue; every other line with a separator that follows a scene
\* marker becomes exactly one dialogue, of the scene whose marker it
\* stands under, the dialogues of a scene in line order. (A dialogue is
\* known by the line it was split from.)
\* ------------------------------------------------------------------------
C27_ParserDropsAndKeeps ==
    \A c \in 1..Len(parses) :
        LET p == parses[c] IN
        /\ \A i \in 1..Len(content) :
              IF content[i] = "speaker" /\ MarkerOf(i) # 0
              THEN /\ Cardinality(HoldersOf(p, i)) = 1
                   /\ \A n \in HoldersOf(p, i) :
                         /\ n = Cardinality({k \in Markers : k <= MarkerOf(i)})
                         /\ Cardinality({d \in 1..Len(p[n].dialogues) :
                                            p[n].dialogues[d] = i}) = 1
              ELSE HoldersOf(p, i) = {}
        /\ \A n \in 1..Len(p) :
              \A d, e \in 1..Len(p[n].dialogues) :
                  /\ p[n].dialogues[d] \in 1..Len(content)
                  /\ d < e => p[n].dialogues[d] < p[n].dialogues[e]

\* the speaker line before the first marker is dropped, the one under the
\* marker is kept
C27_Witness ==
    /\ parses # <<>>
    /\ content = <<"speaker", "SCENE", "speaker">>
    /\ parses[1] = <<[scene_number |-> 1, dialogues |-> <<3>>]>>

\* ------------------------------------------------------------------------
\* C28: the scene_numbers of a parsed Scene list are positive and pairwise
\* distinct: the i-th scene marker of the text yields scene_number i.
\* ------------------------------------------------------------------------
C28_SceneNumbers ==
    \A c \in 1..Len(parses) :
        LET p == parses[c] IN
        /\ Len(p) = Cardinality(Markers)
        /\ \A n \in 1..Len(p) : p[n].scene_number > 0 /\ p[n].scene_number = n
        /\ \A n, m \in 1..Len(p) : p[n].scene_number = p[m].scene_number => n = m

\* three scene markers, three scenes numbered 1, 2, 3
C28_Witness ==
    /\ parses # <<>>
    /\ content = <<"SCENE", "SCENE", "SCENE">>
    /\ Len(parses[1]) = 3
    /\ parses[1][3].scene_number = 3

\* ------------------------------------------------------------------------
\* GeminiFlashClient.generate_text on its own (SpecRetry)
\* ------------------------------------------------------------------------
\* largest max_retries a call is made with
MaxRetries == 4

\* what one generate_content call can do: answer with text, with white
\* space only, with an empty text, or raise
Responses == {"text", "blank", "empty", "error"}

\* response.text is truthy
NonEmpty(r) == r \in {"text", "blank"}

\* a constant delay
Delay_Constant(n) == 1

\* time.sleep(2 ** attempt)
Delay(n) == 2 ^ n

InitRetry ==
    /\ updated_at_column = FALSE
    /\ imagen_client = FALSE
    /\ IdleRun
    /\ text = <<>>
    /\ new_text = <<>>
    /\ NoParse
    /\ NoRender
    /\ NoQA
    /\ max_retries \in 1..MaxRetries
    /\ attempt = 0
    /\ responses = <<>>
    /\ sleeps = <<>>
    /\ generated = "calling"
    /\ NoUpdate
    /\ NoExtract

\* lines 31-39: one pass of the loop body up to the sleep
CallBackend ==
    /\ generated = "calling"
    /\ \E r \in Responses :
         /\ responses' = Append(responses, r)
         /\ generated' = IF NonEmpty(r) THEN "returned"
                         ELSE IF attempt = max_retries - 1 THEN "raised"
                         ELSE "sleeping"
    /\ UNCHANGED <<envVars, dbVars, wfVars, drvVars, textVars, parseVars, renderVars,
                   qaVars, updVars, charVars, max_retries, attempt, sleeps>>

\* line 40 and the next value of the loop variable
Sleep ==
    /\ generated = "sleeping"
    /\ sleeps' = Append(sleeps, Delay(attempt))
    /\ attempt' = attempt + 1
    /\ generated' = "calling"
    /\ UNCHANGED <<envVars, dbVars, wfVars, drvVars, textVars, parseVars, renderVars,
                   qaVars, updVars, charVars, max_retries, responses>>

NextRetry == CallBackend \/ Sleep

\* a backend call answers or raises, and a sleep ends
SpecRetry == InitRetry /\ [][NextRetry]_vars /\ WF_vars(CallBackend) /\ WF_vars(Sleep)

\* ------------------------------------------------------------------------
\* C29: generate_text calls the backend at most max_retries times (3 by
\* default), returns on the first non-empty response without calling again,
\* waits after each failed attempt but the last a delay that doubles (1 s,
\* 2 s, ...), and raises only after the last attempt has failed, an empty
\* response counting as a failed attempt; the call ends by returning or
\* raising.
\* ------------------------------------------------------------------------
C29_BoundedRetry ==
    /\ [](/\ Len(responses) <= max_retries
          /\ \A i \in 1..(Len(responses) - 1) : ~NonEmpty(responses[i])
          /\ generated = "returned" <=>
                (responses # <<>> /\ NonEmpty(responses[Len(responses)]))
          /\ \A i \in 1..Len(responses) :
                responses[i] = "empty" => (generated # "returned" \/ i < Len(responses))
          /\ \A i \in 1..Len(sleeps) : sleeps[i] = 2 ^ (i - 1)
          /\ Len(sleeps) <= max_retries - 1
          /\ generated = "calling" => Len(sleeps) = Len(responses)
          /\ generated \in {"sleeping", "returned", "raised"} =>
                Len(sleeps) = Len(responses) - 1
          /\ generated = "raised" =>
                /\ Len(responses) = max_retries
                /\ \A i \in 1..Len(responses) : ~NonEmpty(responses[i]))
    /\ <>(generated \in {"returned", "raised"})

\* the default of three attempts, all failed: delays of 1 s and 2 s
C29_Witness ==
    /\ max_retries = 3
    /\ generated = "raised"
    /\ responses = <<"empty", "error", "empty">>
    /\ sleeps = <<1, 2>>

\* ------------------------------------------------------------------------
\* C30: execute_workflow creates the run's GenerationRecord, with status
\* processing, before the first agent is invoked, and every AgentLogEntry
\* written during the run references the id of that record.
\* ------------------------------------------------------------------------
C30_RecordBeforeAgents ==
    /\ pc = "agent1" =>
          /\ invocations = <<>>
          /\ generation_id = Len(comic_generations)
          /\ generation_id > 0
          /\ comic_generations[generation_id].status = "processing"
    /\ invocations # <<>> => generation_id \in 1..Len(comic_generations)
    /\ Len(RunLogs) = Len(ReturnedInvocations)
    /\ \A i \in 1..Len(agent_logs) :
          /\ agent_logs[i].generation_id \in 1..Len(comic_generations)
          /\ runs = 1 => agent_logs[i].generation_id = generation_id

\* the first agent has returned and logged, the record still processing
C30_Witness ==
    /\ pc = "agent2"
    /\ Len(agent_logs) = 1
    /\ agent_logs[1].generation_id = generation_id
    /\ comic_generations[generation_id].status = "processing"

\* ------------------------------------------------------------------------
\* C31: in one complete run (start() with its execute_workflow) the
\* GenerationRecord is mutated exactly once after its creation, by a single
\* status update at terminal success or terminal failure: a record that
\* has left the status processing is not written again.
\* ------------------------------------------------------------------------
C31_MutatedOnce ==
    [][\A g \in 1..Len(comic_generations) :
          comic_generations'[g] # comic_generations[g] =>
              comic_generations[g].status = "processing"]_vars

\* ------------------------------------------------------------------------
\* update_comic_generation_status on one row (SpecUpdate)
\* ------------------------------------------------------------------------
\* largest duration of a run, in whole seconds
MaxSeconds == 3
\* update calls on the row of one run
MaxUpdates == 2

\* None, and a value that is not None
None == <<>>
Some(x) == <<x>>

\* `if generation_time:` and `if output_path:`
TruthyTime(x) == x # None /\ x[1] # 0
TruthyPath(x) == x # None /\ x[1] # ""

\* the row log_comic_generation inserts
InsertedRow ==
    [status |-> "processing", output_path |-> None,
     generation_time_seconds |-> None, completed_at |-> FALSE]

\* lines 172-192: the SET list the statement is built with
UpdateRow(row, status, output_path, generation_time) ==
    [status |-> status,
     output_path |-> IF TruthyPath(output_path) THEN output_path ELSE row.output_path,
     generation_time_seconds |-> IF TruthyTime(generation_time) THEN generation_time
                                 ELSE row.generation_time_seconds,
     completed_at |-> (row.completed_at \/ status = "completed")]

\* the calls the program makes: execute_workflow on completion, its except
\* branch, and start() after the document was written
UpdateCalls ==
    {[status |-> "completed", output_path |-> None, generation_time |-> Some(t)] :
        t \in 0..MaxSeconds}
    \cup {[status |-> "failed", output_path |-> None, generation_time |-> None]}
    \cup {[status |-> "completed", output_path |-> Some("comics.pdf"),
           generation_time |-> Some(t)] : t \in 0..MaxSeconds}

InitUpdate ==
    /\ updated_at_column \in BOOLEAN
    /\ imagen_client = FALSE
    /\ IdleRun
    /\ text = <<>>
    /\ new_text = <<>>
    /\ NoParse
    /\ NoRender
    /\ NoQA
    /\ NoRetry
    /\ record = <<InsertedRow>>
    /\ update_calls = <<>>
    /\ NoExtract

\* one call of update_comic_generation_status: the statement raises on a
\* table without the column it names
CallUpdate ==
    /\ record # <<>>
    /\ Len(update_calls) < MaxUpdates
    /\ \E c \in UpdateCalls :
         IF UpdateStatementValid(updated_at_column)
         THEN /\ record' = <<UpdateRow(record[1], c.status, c.output_path,
                                       c.generation_time)>>
              /\ update_calls' = Append(update_calls, [call |-> c, raised |-> FALSE])
         ELSE /\ record' = record
              /\ update_calls' = Append(update_calls, [call |-> c, raised |-> TRUE])
    /\ UNCHANGED <<envVars, dbVars, wfVars, drvVars, textVars, parseVars, renderVars,
                   qaVars, retryVars, charVars>>

NextUpdate == CallUpdate

SpecUpdate == InitUpdate /\ [][NextUpdate]_vars

\* ------------------------------------------------------------------------
\* C32: on completion the orchestrator persists status=completed together
\* with the total duration of the run, for every duration value, a run of
\* 0 whole seconds included: after the completion update has executed, the
\* row holds status completed and the duration that was passed.
\* ------------------------------------------------------------------------
C32_DurationPersisted ==
    (update_calls # <<>>
        /\ ~update_calls[Len(update_calls)].raised
        /\ update_calls[Len(update_calls)].call.status = "completed") =>
        /\ record[1].status = "completed"
        /\ record[1].generation_time_seconds =
              update_calls[Len(update_calls)].call.generation_time

\* ------------------------------------------------------------------------
\* C33: after any sequence of start() calls on one driver instance, the
\* document a call assembles contains only panels rendered during that
\* call: no path an earlier call left in the result map is a page of a
\* later call's document.
\* ------------------------------------------------------------------------
C33_OnlyOwnPanels ==
    \A i \in 1..Len(pdf) : pdf[i].run = runs

\* ------------------------------------------------------------------------
\* C34: whenever start() returns an error result, the GenerationRecord of
\* that run does not end with status completed: a run whose rendering or
\* assembly failed after the workflow completed is not recorded as
\* completed.
\* ------------------------------------------------------------------------
C34_ErrorNeverCompleted ==
    (Returned /\ startResult.kind = "error" /\ generation_id > 0) =>
        comic_generations[generation_id].status # "completed"

\* ------------------------------------------------------------------------
\* C35: result slot 0 is reserved for the poster. For the prompts and
\* scenes of a completed workflow no scene task has scene_number 0 or
\* writes slot 0: from the submission of the tasks on, through the join,
\* slot 0 holds the poster path of this call, and the poster is the first
\* page of the document.
\* ------------------------------------------------------------------------
C35_PosterSlotReserved ==
    /\ \A i \in 1..Len(futures) :
          futures[i].scene_num >= 1 /\ SlotOf(futures[i]) >= 1
    /\ \A i \in 1..Len(prompts) :
          prompts[i].type = "scene" => prompts[i].scene_number >= 1
    /\ (pc = "wait" \/ futures # <<>>) =>
          /\ Len(Slot(0)) = 1
          /\ Slot(0)[1].v.scene = 0
          /\ Slot(0)[1].v.run = runs
    /\ pdf # <<>> => pdf[1] = Slot(0)[1].v

\* the join is over: two tasks have written their slots, slot 0 untouched
C35_Witness ==
    /\ pc = "wait"
    /\ Len(futures) = 2
    /\ AllDone(futures)
    /\ Len(generated_images_paths) = 3
    /\ generated_images_paths[1].k = 0
    /\ generated_images_paths[1].v.kind = "image"

\* execute_workflow returned a mapping tagged error
WorkflowError == wfOutcome = "returned" /\ Has(workflow_results, "error")

\* ------------------------------------------------------------------------
\* C36: when execute_workflow returns a result tagged error, start() makes
\* no image-backend call, renders nothing, submits no scene task, assembles
\* no document, and what it returns is an error string.
\* ------------------------------------------------------------------------
C36_ErrorStopsDriver ==
    WorkflowError =>
        /\ pc \in {"returned", "idle"}
        /\ backendCalls = {}
        /\ runs = 1 => generated_images_paths = <<>>
        /\ futures = <<>>
        /\ images = <<>>
        /\ pdf = <<>>
        /\ pc = "idle" => startResult = Error("Agentic workflow failed")

\* the planning agent failed on an instance with an image client and
\* start() has returned
C36_Witness ==
    /\ WorkflowError
    /\ Returned
    /\ imagen_client
    /\ Len(invocations) = 2
    /\ startResult.kind = "error"

\* the payloads the planning agent can return with success
PlanningPayloads == {PlanningResult(o, "none").data[1] : o \in ObjectiveCounts}

\* the mapping of the run that differs only in the planning payload
OtherRun(p) == Put(workflow_results, "educational_planning", p)

C38_NothingAfterSummary ==
    \A c \in 1..Len(parses) :
        \A n \in 1..Len(parses[c]) :
            \A d \in 1..Len(parses[c][n].dialogues) :
                \A k \in 1..(parses[c][n].dialogues[d] - 1) :
                    content[k] # "EDUCATIONAL_SUMMARY:"

\* ------------------------------------------------------------------------
\* GeminiFlashClient.extract_character_info on its own (SpecChars)
\* ------------------------------------------------------------------------
\* lines of the backend's answer
MaxResponseLines == 3

\* The kinds of line the loop tells apart by startswith: a block header
\* CHARACTER_n:, a Name: line (with a name, or with nothing after the
\* colon), a Personality: line, a Role: line, any other line.
ResponseLines == {"CHARACTER_", "Name:ada", "Name:bob", "Name:", "Personality:", "Role:", "other"}

\* response.split('\n') of any answer of up to MaxResponseLines lines
CharResponses == UNION {[1..n -> ResponseLines] : n \in 1..MaxResponseLines}

\* line.replace('Name:', '').strip()
NameOf(line) == IF line = "Name:ada" THEN "ada" ELSE IF line = "Name:bob" THEN "bob" ELSE ""

\* lines 218-230: the loop; current_char is <<>> for None, <<mapping>>
\* otherwise; a read of a key the mapping lacks raises KeyError
RECURSIVE ExtractFrom(_, _, _, _)
ExtractFrom(lines, i, characters, current_char) ==
    IF i > Len(lines) THEN [raised |-> FALSE, characters |-> characters]
    ELSE LET line == lines[i] IN
         IF line = "CHARACTER_"
         THEN ExtractFrom(lines, i + 1, characters, <<EmptyMap>>)
         ELSE IF line \in {"Name:ada", "Name:bob", "Name:"} /\ current_char # <<>>
         THEN ExtractFrom(lines, i + 1, characters,
                          <<Put(current_char[1], "name", NameOf(line))>>)
         ELSE IF line = "Personality:" /\ current_char # <<>>
         THEN ExtractFrom(lines, i + 1, characters,
                          <<Put(current_char[1], "personality", i)>>)
         ELSE IF line = "Role:" /\ current_char # <<>>
         THEN LET char == Put(current_char[1], "role", i) IN
              IF ~Has(char, "name")
              THEN [raised |-> TRUE, characters |-> characters]
              ELSE IF char["name"] # ""
              THEN ExtractFrom(lines, i + 1, Put(characters, char["name"], char), <<>>)
              ELSE ExtractFrom(lines, i + 1, characters, <<>>)
         ELSE ExtractFrom(lines, i + 1, characters, current_char)

ExtractCharacterInfo(lines) == ExtractFrom(lines, 1, EmptyMap, <<>>)

InitChars ==
    /\ updated_at_column = FALSE
    /\ imagen_client = FALSE
    /\ IdleRun
    /\ text = <<>>
    /\ new_text = <<>>
    /\ NoParse
    /\ NoRender
    /\ NoQA
    /\ NoRetry
    /\ NoUpdate
    /\ response \in CharResponses
    /\ extracted = <<>>

\* characters = self.gemini.extract_character_info(educational_content),
\* the backend having answered
CallExtract ==
    /\ response # <<>>
    /\ extracted = <<>>
    /\ extracted' = <<ExtractCharacterInfo(response)>>
    /\ UNCHANGED <<envVars, dbVars, wfVars, drvVars, textVars, parseVars, renderVars,
                   qaVars, retryVars, updVars, response>>

NextChars == CallExtract

SpecChars == InitChars /\ [][NextChars]_vars

\* the Role: lines that close a block, with the name the block holds then:
\* "" for an empty name, "none" for a block without a Name: line
RECURSIVE BlockEnds(_, _, _)
BlockEnds(lines, i, open) ==
    IF i > Len(lines) THEN <<>>
    ELSE IF lines[i] = "CHARACTER_" THEN BlockEnds(lines, i + 1, <<"none">>)
    ELSE IF lines[i] \in {"Name:ada", "Name:bob", "Name:"} /\ open # <<>>
         THEN BlockEnds(lines, i + 1, <<NameOf(lines[i])>>)
    ELSE IF lines[i] = "Role:" /\ open # <<>>
         THEN <<open[1]>> \o BlockEnds(lines, i + 1, <<>>)
    ELSE BlockEnds(lines, i + 1, open)

\* ------------------------------------------------------------------------
\* C39: character-registry extraction never raises for any sequence of
\* CHARACTER_/Name:/Personality:/Role: lines in the backend response (a
\* block whose Role line comes without a preceding Name line included), and
\* it registers a character exactly when a block reaches its Role line with
\* a non-empty name.
\* ------------------------------------------------------------------------
C39_ExtractionNeverRaises ==
    extracted # <<>> =>
        /\ ~extracted[1].raised
        /\ DOMAIN extracted[1].characters =
              {BlockEnds(response, 1, <<>>)[j] : j \in 1..Len(BlockEnds(response, 1, <<>>))}
                  \ {"", "none"}

====
